---------------------------- MODULE Spec2Model ----------------------------
(***************************************************************************)
(* Model of the resilient-call core of next-chat:                          *)
(*   - CircuitBreakerImpl, withRetry and AgentManagerImpl (agent-manager)  *)
(*   - InMemoryRateLimiter and withRateLimit (rate-limit middleware)       *)
(* JavaScript runs each callback to completion, so one action is one       *)
(* synchronous stretch of code together with the promise continuations     *)
(* (microtasks) it triggers; timers and remote calls separate actions.     *)
(***************************************************************************)
EXTENDS Integers, Sequences, FiniteSets, TLC

(* ------------------------------------------------------------------ *)
(* Model parameters                                                   *)
(* ------------------------------------------------------------------ *)

\* CircuitBreakerImpl constructor parameter `threshold`
Threshold == 2

\* CircuitBreakerImpl constructor parameter `timeout` (clock ticks)
Timeout == 3

\* the clock runs from 0 to MaxTime
MaxTime == 4

\* number of execute() calls that can be in flight at once
NumCallers == 3

\* total number of execute() calls issued in one behaviour
MaxCalls == 5

Callers == 1..NumCallers

\* withRetry is exercised with maxRetries in 0..MaxRetriesBound
MaxRetriesBound == 3

\* ... and with these values of baseDelay (milliseconds)
BaseDelays == {1, 3, 100, 1000}

\* InMemoryRateLimiter constructor parameter `maxRequests`
MaxRequests == 2

\* InMemoryRateLimiter constructor parameter `windowMs` (clock ticks)
WindowMs == 2

\* period of the cleanup timer (clock ticks)
SweepInterval == 3

\* the rate limiter's clock runs from 0 to MaxTimeRL
MaxTimeRL == 6

\* total number of checkLimit calls in one behaviour
MaxChecks == 5

\* withRetry's default maxRetries (MAX_RETRIES) in the agent manager
MaxRetries == 2

\* withRetry's default baseDelay (RETRY_DELAY_MS), in clock ticks
BaseDelay == 1

\* the agent manager's clock runs from 0 to MaxTimeAM
MaxTimeAM == 4

\* getAgent()/initializeAgent() calls in one behaviour (one per client)
NumClients == 3

\* initializations (withRetry calls) started in one behaviour
MaxLoops == 3

\* shutdown() calls in one behaviour
MaxShutdowns == 1

\* longest content-part array given to the wrapped run()'s normalization
MaxParts == 2

\* getHealth()'s cache period (30000 ms), in clock ticks
HealthCacheMs == 2

\* length of the handle's tools array (line 258: [greetTool])
ToolsCount == 1

Clients == 1..NumClients

Loops == 1..MaxLoops

\* client identities (what getClientIP returns)
Ids == {"10.0.0.1", "10.0.0.2"}

Keys == Ids \X (0..(MaxTimeRL \div WindowMs))

VARIABLES
  now,            \* Date.now()
  cb,             \* the CircuitBreakerImpl instance: state, failureCount, ...
  pc,             \* per execute() caller: "idle" | "running" (operation in flight)
  lastResult,     \* per caller: outcome of its latest execute() call
  probe,          \* history, per caller: "yes" when its call made the Open -> HalfOpen
                  \* transition, "reopened" once another call's failure opened the
                  \* breaker while that call was in flight, "joined" when its call
                  \* was admitted while the breaker was HalfOpen, "no" otherwise
  opCalls,        \* history: number of invocations of wrapped operations
  issued,         \* number of execute() calls issued so far
  consecFails,    \* history: operation failures since the last operation success
  lastTransition, \* history: target of the breaker's latest state assignment
  openedAt,       \* history: time of the breaker's latest change of state to Open
  rt,             \* one withRetry call: its arguments, loop state and observations
  requests,       \* InMemoryRateLimiter.requests: key -> {count, resetTime} or NoEntry
  nextSweep,      \* time at which the cleanup timer fires next
  seen,           \* history: checkLimit calls made so far per key
  resetUsed,      \* history: reset() has been called
  rlLast,         \* history: the latest checkLimit call and what it returned
  rq,             \* history: the latest request through withRateLimit and its outcome
  apiKey,         \* OPENAI_API_KEY is configured
  agent,          \* AgentManagerImpl.agent: 0 (null) or the handle
  isInitializing, \* AgentManagerImpl.isInitializing
  initializationPromise, \* AgentManagerImpl.initializationPromise: 0 (null) or the
                  \* withRetry call whose promise it is
  loops,          \* the withRetry calls started by initializeAgent
  gpc,            \* per client: "idle" | "awaiting" | "done"
  gawait,         \* per client: the initialization whose promise it awaits (0: none)
  gres,           \* per client: what its call resolved to or was rejected with
  handles,        \* number of handles constructed so far
  shutdowns,      \* history: number of shutdown() calls
  callsSince,     \* history: getAgent()/initializeAgent() calls since the latest
                  \* shutdown() (since construction when there was none)
  lastHealthCheck, \* AgentManagerImpl.lastHealthCheck
  health,         \* history: what the latest getHealth() call returned
  lastComputed,   \* history: the status the latest recomputation produced
  runInput,       \* a value of result.data.message.content or result.data.result
  runOutput       \* what the wrapped run() put in its place

cbVars == <<cb, pc, lastResult, probe, opCalls, issued, consecFails, lastTransition,
            openedAt>>

rlVars == <<requests, nextSweep, seen, resetUsed, rlLast, rq>>

\* what the concurrent-execute() scenario adds to the breaker itself
cbHist == <<pc, lastResult, probe, opCalls, issued, consecFails, lastTransition,
            openedAt>>

\* the same without the count of failures in a row, which a success of any
\* operation through the breaker ends
runHist == <<pc, lastResult, probe, opCalls, issued, lastTransition, openedAt>>

amVars == <<apiKey, agent, isInitializing, initializationPromise, loops,
            gpc, gawait, gres, handles, shutdowns, callsSince,
            lastHealthCheck, health, lastComputed, runInput, runOutput>>

\* the value under normalization in the wrapped run()
runVars == <<runInput, runOutput>>

\* the state of getHealth()
hVars == <<lastHealthCheck, health, lastComputed>>

(* ------------------------------------------------------------------ *)
(* CircuitBreakerImpl                                                 *)
(* ------------------------------------------------------------------ *)

\* new CircuitBreakerImpl(threshold): the private field threshold (line 38) and
\* the four public fields
BreakerWith(threshold) ==
  [state |-> "closed", failureCount |-> 0, lastFailureTime |-> 0, nextAttemptTime |-> 0,
   threshold |-> threshold]

NewBreaker == BreakerWith(Threshold)

canExecute_OneProbe(b, t) ==
  IF b.state = "closed" THEN TRUE
  ELSE IF b.state = "open" THEN t >= b.nextAttemptTime
  ELSE FALSE

canExecute_Strict(b, t) ==
  IF b.state = "closed" THEN TRUE
  ELSE IF b.state = "open" THEN t > b.nextAttemptTime
  ELSE TRUE

canExecute_IgnoresTime(b, t) == b.state # "open" \/ t >= 0

canExecute(b, t) ==
  IF b.state = "closed" THEN TRUE
  ELSE IF b.state = "open" THEN t >= b.nextAttemptTime
  ELSE TRUE

\* execute(), lines 56-59: the Open -> HalfOpen transition made before fn() is called
enterHalfOpen(b, t) ==
  IF b.state = "open" /\ t >= b.nextAttemptTime
  THEN [b EXCEPT !.state = "half-open"]
  ELSE b

recordSuccess_KeepState(b) == [b EXCEPT !.failureCount = 0]

recordSuccess(b) ==
  [b EXCEPT !.failureCount = 0,
            !.state = IF b.state = "half-open" THEN "closed" ELSE b.state]

recordFailure_Uncounted(b, t) ==
  IF b.failureCount >= b.threshold
  THEN [b EXCEPT !.lastFailureTime = t,
                 !.state = "open", !.nextAttemptTime = t + Timeout]
  ELSE [b EXCEPT !.lastFailureTime = t]

recordFailure_OffByOne(b, t) ==
  LET fc == b.failureCount + 1 IN
  IF fc > b.threshold
  THEN [b EXCEPT !.failureCount = fc, !.lastFailureTime = t,
                 !.state = "open", !.nextAttemptTime = t + Timeout]
  ELSE [b EXCEPT !.failureCount = fc, !.lastFailureTime = t]

recordFailure(b, t) ==
  LET fc == b.failureCount + 1 IN
  IF fc >= b.threshold
  THEN [b EXCEPT !.failureCount = fc, !.lastFailureTime = t,
                 !.state = "open", !.nextAttemptTime = t + Timeout]
  ELSE [b EXCEPT !.failureCount = fc, !.lastFailureTime = t]

(* ------------------------------------------------------------------ *)
(* withRetry                                                          *)
(* ------------------------------------------------------------------ *)

RECURSIVE Pow2(_)
Pow2(n) == IF n <= 0 THEN 1 ELSE 2 * Pow2(n - 1)

\* line 109: baseDelay * Math.pow(2, attempt)
retryDelay_Linear(baseDelay, attempt) == baseDelay * (attempt + 1)

retryDelay(baseDelay, attempt) == baseDelay * Pow2(attempt)

\* line 102: the loop condition
moreAttempts_Exclusive(attempt, maxRetries) == attempt < maxRetries

moreAttempts(attempt, maxRetries) == attempt <= maxRetries

\* line 108: a delay is waited only when another attempt follows
shouldDelay_Always(attempt, maxRetries) == attempt <= maxRetries

shouldDelay(attempt, maxRetries) == attempt < maxRetries

\* line 106: lastError = error
keepError(lastError, error) == error

\* The state of one call withRetry(fn, maxRetries, baseDelay).  The k-th invocation
\* of fn either returns value k or throws error k, so errors are told apart.
\*   pc: "try" (about to call fn), "sleep" (in the setTimeout), "returned", "thrown"
NewRetry(maxRetries, baseDelay) ==
  [maxRetries |-> maxRetries, baseDelay |-> baseDelay, attempt |-> 0,
   pc |-> IF moreAttempts(0, maxRetries) THEN "try" ELSE "thrown",
   calls |-> 0, delays |-> << >>, lastError |-> 0, result |-> 0, failures |-> 0]

\* attempt++ and the loop test; leaving the loop throws lastError (line 121)
NextIteration(r) ==
  LET a == r.attempt + 1 IN
  IF moreAttempts(a, r.maxRetries)
  THEN [r EXCEPT !.attempt = a, !.pc = "try"]
  ELSE [r EXCEPT !.attempt = a, !.pc = "thrown", !.result = r.lastError]

RetryUnused == rt = NewRetry(0, 0)

InitRetry ==
  \E m \in 0..MaxRetriesBound : \E d \in BaseDelays : rt = NewRetry(m, d)

\* fn() resolves: return its value (line 104)
RetryInvokeOk ==
  /\ rt.pc = "try"
  /\ rt' = [rt EXCEPT !.calls = @ + 1, !.pc = "returned", !.result = rt.calls + 1]
  /\ UNCHANGED <<now, cbVars, rlVars, amVars>>

\* fn() rejects: remember the error, then either start the delay or go on
RetryInvokeFail ==
  /\ rt.pc = "try"
  /\ LET k == rt.calls + 1
         r1 == [rt EXCEPT !.calls = k, !.failures = @ + 1,
                          !.lastError = keepError(rt.lastError, k)]
     IN rt' = IF shouldDelay(rt.attempt, rt.maxRetries)
              THEN [r1 EXCEPT !.pc = "sleep",
                              !.delays = Append(@, retryDelay(rt.baseDelay, rt.attempt))]
              ELSE NextIteration(r1)
  /\ UNCHANGED <<now, cbVars, rlVars, amVars>>

\* the setTimeout of line 116 fires
RetryWake ==
  /\ rt.pc = "sleep"
  /\ rt' = NextIteration(rt)
  /\ UNCHANGED <<now, cbVars, rlVars, amVars>>

NextRetry ==
  \/ RetryInvokeOk
  \/ RetryInvokeFail
  \/ RetryWake

(* ------------------------------------------------------------------ *)
(* InMemoryRateLimiter                                                *)
(* ------------------------------------------------------------------ *)

\* a key that is not in the Map
NoEntry == [count |-> -1, resetTime |-> -1]

Max(a, b) == IF a >= b THEN a ELSE b

\* line 182: Math.floor(now / this.windowMs)
windowKey(t) == t \div WindowMs

\* the end of fixed window w: (windowIndex + 1) * windowMs
windowEnd(w) == (w + 1) * WindowMs

\* line 194
isAllowed_Inclusive(count) == count <= MaxRequests

isAllowed(count) == count < MaxRequests

\* checkLimit(identifier) at time t on the Map reqs: the Map afterwards and the
\* returned {allowed, remaining, resetTime}.  `current` is the stored object when
\* there is one, so the window reset of lines 187-191 changes it in place.
checkLimit(reqs, id, t) ==
  LET key == <<id, windowKey(t)>>
      stored == reqs[key]
      fresh == [count |-> 0, resetTime |-> t + WindowMs]
      current == IF stored = NoEntry THEN fresh
                 ELSE IF t > stored.resetTime THEN fresh
                 ELSE stored
      remaining == Max(0, MaxRequests - current.count)
      allowed == isAllowed(current.count)
      after == IF allowed THEN [current EXCEPT !.count = @ + 1] ELSE current
  IN [requests |-> IF allowed \/ stored # NoEntry
                   THEN [reqs EXCEPT ![key] = after] ELSE reqs,
      allowed |-> allowed,
      remaining |-> IF allowed THEN remaining - 1 ELSE remaining,
      resetTime |-> after.resetTime]

\* cleanup(): drop every entry whose resetTime has passed
cleanup_DropsAll(reqs, t) == [k \in Keys |-> NoEntry]

cleanup(reqs, t) ==
  [k \in Keys |-> IF reqs[k] # NoEntry /\ t > reqs[k].resetTime THEN NoEntry ELSE reqs[k]]

NoCall == [id |-> "", window |-> 0, k |-> 0, allowed |-> FALSE, remaining |-> 0, resetTime |-> 0]

\* handler: what the latest invocation of the handler did
NoRequest ==
  [id |-> "", limiter |-> "none", handlerCalls |-> 0, handler |-> "none", status |-> "none"]

LimiterUnused ==
  /\ requests = [k \in Keys |-> NoEntry]
  /\ nextSweep = SweepInterval
  /\ seen = [k \in Keys |-> 0]
  /\ resetUsed = FALSE
  /\ rlLast = NoCall
  /\ rq = NoRequest

InitRL == LimiterUnused

RECURSIVE SumSeen(_)
SumSeen(ks) ==
  IF ks = {} THEN 0
  ELSE LET k == CHOOSE x \in ks : TRUE IN seen[k] + SumSeen(ks \ {k})

\* history: checkLimit calls made so far
TotalChecks == SumSeen(Keys)

\* what a checkLimit call leaves in requests, seen and rlLast
Checked(id) ==
  LET key == <<id, windowKey(now)>>
      res == checkLimit(requests, id, now)
  IN /\ TotalChecks < MaxChecks
     /\ requests' = res.requests
     /\ seen' = [seen EXCEPT ![key] = @ + 1]
     /\ rlLast' = [id |-> id, window |-> windowKey(now), k |-> seen[key] + 1,
                   allowed |-> res.allowed, remaining |-> res.remaining,
                   resetTime |-> res.resetTime]

\* rateLimiter.checkLimit(id) called directly
CheckLimit(id) ==
  /\ Checked(id)
  /\ UNCHANGED <<now, nextSweep, resetUsed, rq, cbVars, rt, amVars>>

\* rateLimiter.reset(id)
Reset(id) ==
  /\ requests' = [requests EXCEPT ![<<id, windowKey(now)>>] = NoEntry]
  /\ resetUsed' = TRUE
  /\ UNCHANGED <<now, nextSweep, seen, rlLast, rq, cbVars, rt, amVars>>

\* the setInterval callback of line 173
Cleanup ==
  /\ now >= nextSweep
  /\ requests' = cleanup(requests, now)
  /\ nextSweep' = nextSweep + SweepInterval
  /\ UNCHANGED <<now, seen, resetUsed, rlLast, rq, cbVars, rt, amVars>>

\* time passes; a due cleanup timer fires before the clock moves on
TickRL ==
  /\ now < MaxTimeRL
  /\ now < nextSweep
  /\ now' = now + 1
  /\ UNCHANGED <<rlVars, cbVars, rt, amVars>>

\* withRateLimit's catch block (lines 289-295), entered after `calls` handler
\* invocations: log, then `return handler()`, whose outcome is the request's
catchBlock_Rejects(calls, outcome) ==
  [handlerCalls |-> calls, handler |-> "none", status |-> "429"]

catchBlock(calls, outcome) ==
  [handlerCalls |-> calls + 1, handler |-> outcome,
   status |-> IF outcome = "ok" THEN "handler response" ELSE "handler error"]

\* withRateLimit(request, handler) for a request of client id.
\*   limiterThrows: getClientIP or checkLimit throws
\*   first, second: what the 1st and the 2nd invocation of handler do ("ok" | "throws")
\*   headersThrow:  response.headers.set throws
\* The handler does not touch the limiter, so the await of line 253 is not split.
WithRateLimit(id, limiterThrows, first, headersThrow, second) ==
  /\ IF limiterThrows
     THEN /\ rq' = [id |-> id, limiter |-> "threw"] @@ catchBlock(0, first)
          /\ UNCHANGED <<requests, seen, rlLast>>
     ELSE /\ Checked(id)
          /\ LET allowed == rlLast'.allowed
                 out == IF first = "throws" \/ headersThrow
                        THEN catchBlock(1, second)
                        ELSE [handlerCalls |-> 1, handler |-> first,
                              status |-> IF allowed THEN "handler response" ELSE "429"]
             IN rq' = [id |-> id, limiter |-> IF allowed THEN "allowed" ELSE "denied"] @@ out
  /\ UNCHANGED <<now, nextSweep, resetUsed, cbVars, rt, amVars>>

Outcomes == {"ok", "throws"}

\* the limiter used directly
NextRL ==
  \/ \E id \in Ids : CheckLimit(id)
  \/ \E id \in Ids : Reset(id)
  \/ Cleanup
  \/ TickRL

\* the limiter behind the middleware, as the chat route uses it
NextMW ==
  \/ \E id \in Ids : \E f, h \in BOOLEAN : \E o1, o2 \in Outcomes :
       WithRateLimit(id, f, o1, h, o2)
  \/ Cleanup
  \/ TickRL

(* ------------------------------------------------------------------ *)
(* AgentManagerImpl                                                   *)
(* ------------------------------------------------------------------ *)

\* a withRetry call of initializeAgent:
\*   status: "unused" | "sleeping" (in a retry delay) | "settled"
\*   attempt: withRetry's loop counter;  wake: when its setTimeout is due
\*   lastError: withRetry's lastError;   outcome: what its promise settled with
NoLoop ==
  [status |-> "unused", attempt |-> 0, wake |-> 0, lastError |-> << >>, outcome |-> << >>]

NoHealth == [status |-> "none", lastHealthCheck |-> 0, cached |-> FALSE]

\* lastHealthCheck starts as 0 while Date.now() is far beyond 30 s: on the
\* model's clock, which starts at 0, that is a check HealthCacheMs ago
HealthUnused ==
  /\ lastHealthCheck = 0 - HealthCacheMs
  /\ health = NoHealth
  /\ lastComputed = "none"

\* Strings are sequences of characters.  A content part has a type and may or
\* may not have a text property (hasText), which may be the empty string.
Texts == {<< >>, <<"a">>, <<"b">>}

Parts ==
  {[type |-> t, hasText |-> h, text |-> x] :
     t \in {"text", "image_url"}, h \in BOOLEAN, x \in Texts} \
  {c \in [type : {"text", "image_url"}, hasText : {FALSE}, text : Texts] : c.text # << >>}

RECURSIVE PartArrays(_)
PartArrays(n) ==
  IF n = 0 THEN {<< >>}
  ELSE LET shorter == PartArrays(n - 1) IN
       shorter \cup {Append(a, c) : a \in {b \in shorter : Len(b) = n - 1}, c \in Parts}

\* a value found in message.content or result: a string, an array of content
\* parts, undefined, or some other object
StringValue(x) == [kind |-> "string", str |-> x, parts |-> << >>]

ArrayValue(a) == [kind |-> "array", str |-> << >>, parts |-> a]

Undefined == [kind |-> "undefined", str |-> << >>, parts |-> << >>]

OtherObject == [kind |-> "object", str |-> << >>, parts |-> << >>]

RunValues ==
  {StringValue(x) : x \in Texts} \cup {ArrayValue(a) : a \in PartArrays(MaxParts)}
    \cup {Undefined, OtherObject}

\* JavaScript truthiness of c.text
truthyText(c) == c.hasText /\ c.text # << >>

\* lines 223 and 231:
\*   (c.text || c.type === 'text') ? c.text || '' : ''
partText(c) ==
  IF truthyText(c) \/ c.type = "text"
  THEN (IF truthyText(c) THEN c.text ELSE << >>)
  ELSE << >>

\* .map(...).join('')
RECURSIVE joinParts(_)
joinParts(a) ==
  IF a = << >> THEN << >> ELSE partText(Head(a)) \o joinParts(Tail(a))

\* lines 219-225: messageContent
normalizeMessageContent(v) ==
  IF v.kind = "string" THEN v
  ELSE IF v.kind = "array" THEN StringValue(joinParts(v.parts))
  ELSE StringValue(<< >>)

\* lines 227-233: resultContent; the last alternative is `result.data.result || ''`
normalizeResult(v) ==
  IF v.kind = "string" THEN v
  ELSE IF v.kind = "array" THEN StringValue(joinParts(v.parts))
  ELSE IF v.kind = "undefined" THEN StringValue(<< >>)
  ELSE v

NoValue == [kind |-> "none", str |-> << >>, parts |-> << >>]

RunUnused ==
  /\ runInput = NoValue
  /\ runOutput = [field |-> "none", value |-> NoValue]

AgentManagerUnused ==
  /\ apiKey = TRUE
  /\ agent = 0
  /\ isInitializing = FALSE
  /\ initializationPromise = 0
  /\ loops = [l \in Loops |-> NoLoop]
  /\ gpc = [c \in Clients |-> "idle"]
  /\ gawait = [c \in Clients |-> 0]
  /\ gres = [c \in Clients |-> << >>]
  /\ handles = 0
  /\ shutdowns = 0
  /\ callsSince = 0
  /\ HealthUnused
  /\ RunUnused

InitAM ==
  /\ apiKey \in BOOLEAN
  /\ agent = 0
  /\ isInitializing = FALSE
  /\ initializationPromise = 0
  /\ loops = [l \in Loops |-> NoLoop]
  /\ gpc = [c \in Clients |-> "idle"]
  /\ gawait = [c \in Clients |-> 0]
  /\ gres = [c \in Clients |-> << >>]
  /\ handles = 0
  /\ shutdowns = 0
  /\ callsSince = 0
  /\ HealthUnused
  /\ RunUnused

\* lines 151 and 163: an initialization is in flight
inFlight_Never(flag, promise) == FALSE

inFlight(flag, promise) == flag /\ promise # 0

ActiveLoops == {l \in Loops : loops[l].status = "sleeping"}

UsedLoops == {l \in Loops : loops[l].status # "unused"}

\* One pass of withRetry's loop body in initialization l, at loop counter `attempt`:
\* circuitBreaker.execute around the construction steps (lines 170-280), which run
\* without awaiting anything.  built = TRUE when tool(), openai() and agent() return,
\* FALSE when one of them throws.  Gives the breaker, the cached handle, the handle
\* count and the loop afterwards.
InitAttempt(l, attempt, built) ==
  IF ~canExecute(cb, now)
  THEN [cb |-> cb, agent |-> agent, handles |-> handles,
        error |-> <<"CircuitBreakerError", l, attempt>>]
  ELSE LET b == enterHalfOpen(cb, now) IN
       IF ~apiKey
       THEN [cb |-> recordFailure(b, now), agent |-> agent, handles |-> handles,
             error |-> <<"ConfigurationError", l, attempt>>]
       ELSE IF ~built
       THEN [cb |-> recordFailure(b, now), agent |-> agent, handles |-> handles,
             error |-> <<"Error", l, attempt>>]
       ELSE [cb |-> recordSuccess(b), agent |-> handles + 1, handles |-> handles + 1,
             error |-> << >>]

Settle_StarterOnly(l, attempt, lastError, outcome, starter) ==
  LET waiting(c) == c = starter IN
  /\ loops' = [loops EXCEPT ![l] =
                 [status |-> "settled", attempt |-> attempt, wake |-> 0,
                  lastError |-> lastError, outcome |-> outcome]]
  /\ isInitializing' = FALSE
  /\ initializationPromise' = 0
  /\ gpc' = [c \in Clients |-> IF waiting(c) THEN "done" ELSE gpc[c]]
  /\ gawait' = [c \in Clients |-> IF c = starter THEN l ELSE gawait[c]]
  /\ gres' = [c \in Clients |-> IF waiting(c) THEN outcome ELSE gres[c]]

\* The promise of initialization l settles with `outcome`: every client awaiting it
\* gets the outcome, and the continuation of the initializeAgent call that started
\* l (lines 283-292) clears the in-flight fields, whatever they hold by then.
\* `starter` is the client whose call is starting l in this very step (0: none).
Settle(l, attempt, lastError, outcome, starter) ==
  LET waiting(c) == c = starter \/ (gpc[c] = "awaiting" /\ gawait[c] = l) IN
  /\ loops' = [loops EXCEPT ![l] =
                 [status |-> "settled", attempt |-> attempt, wake |-> 0,
                  lastError |-> lastError, outcome |-> outcome]]
  /\ isInitializing' = FALSE
  /\ initializationPromise' = 0
  /\ gpc' = [c \in Clients |-> IF waiting(c) THEN "done" ELSE gpc[c]]
  /\ gawait' = [c \in Clients |-> IF c = starter THEN l ELSE gawait[c]]
  /\ gres' = [c \in Clients |-> IF waiting(c) THEN outcome ELSE gres[c]]

\* withRetry's loop body at loop counter `attempt` (lines 103-118) and what follows
\* it without a timer in between: the return of line 104, the start of the delay of
\* line 116, or attempt++ with the loop left and lastError thrown (line 121).
RunLoop(l, attempt, built, starter) ==
  LET a == InitAttempt(l, attempt, built)
      failed == a.error # << >>
      lastError == IF failed THEN keepError(loops[l].lastError, a.error)
                   ELSE loops[l].lastError
  IN
  /\ cb' = a.cb
  /\ agent' = a.agent
  /\ handles' = a.handles
  /\ consecFails' = IF failed THEN consecFails ELSE 0
  /\ IF ~failed
     THEN Settle(l, attempt, lastError, <<"resolved", a.agent>>, starter)
     ELSE IF shouldDelay(attempt, MaxRetries)
     THEN /\ loops' = [loops EXCEPT ![l] =
                         [status |-> "sleeping", attempt |-> attempt,
                          wake |-> now + retryDelay(BaseDelay, attempt),
                          lastError |-> lastError, outcome |-> << >>]]
          /\ isInitializing' = IF starter # 0 THEN TRUE ELSE isInitializing
          /\ initializationPromise' = IF starter # 0 THEN l ELSE initializationPromise
          /\ gpc' = [c \in Clients |-> IF c = starter THEN "awaiting" ELSE gpc[c]]
          /\ gawait' = [c \in Clients |-> IF c = starter THEN l ELSE gawait[c]]
          /\ UNCHANGED gres
     ELSE \* no delay is waited only after the last attempt the loop allows
          /\ ~moreAttempts(attempt + 1, MaxRetries)
          /\ Settle(l, attempt + 1, lastError, <<"rejected", lastError>>, starter)

\* `return this.agent` (lines 148, 160)
ReturnCached(c) ==
  /\ gpc' = [gpc EXCEPT ![c] = "done"]
  /\ gres' = [gres EXCEPT ![c] = <<"resolved", agent>>]
  /\ UNCHANGED <<cb, agent, isInitializing, initializationPromise, loops, gawait, handles,
                 consecFails>>

\* `return this.initializationPromise` (lines 152, 164)
Join(c) ==
  LET l == initializationPromise IN
  /\ IF loops[l].status = "settled"
     THEN /\ gpc' = [gpc EXCEPT ![c] = "done"]
          /\ gres' = [gres EXCEPT ![c] = loops[l].outcome]
     ELSE /\ gpc' = [gpc EXCEPT ![c] = "awaiting"]
          /\ UNCHANGED gres
  /\ gawait' = [gawait EXCEPT ![c] = l]
  /\ UNCHANGED <<cb, agent, isInitializing, initializationPromise, loops, handles,
                 consecFails>>

\* the body of initializeAgent() (lines 159-293) for client c
initializeAgent(c, built) ==
  IF agent # 0 THEN ReturnCached(c)
  ELSE IF inFlight(isInitializing, initializationPromise) THEN Join(c)
  ELSE /\ UsedLoops # Loops
       /\ LET l == CHOOSE x \in Loops \ UsedLoops : \A y \in Loops \ UsedLoops : x <= y
          IN RunLoop(l, 0, built, c)

\* agentManager.getAgent() called by client c (lines 146-156)
GetAgent(c) ==
  /\ gpc[c] = "idle"
  /\ \E built \in BOOLEAN :
       IF agent # 0 THEN ReturnCached(c)
       ELSE IF inFlight(isInitializing, initializationPromise) THEN Join(c)
       ELSE initializeAgent(c, built)
  /\ callsSince' = callsSince + 1
  /\ UNCHANGED <<now, apiKey, shutdowns, hVars, runVars, runHist, rt, rlVars>>

\* agentManager.initializeAgent() called directly by client c
InitializeAgent(c) ==
  /\ gpc[c] = "idle"
  /\ \E built \in BOOLEAN : initializeAgent(c, built)
  /\ callsSince' = callsSince + 1
  /\ UNCHANGED <<now, apiKey, shutdowns, hVars, runVars, runHist, rt, rlVars>>

\* the retry delay of initialization l is over (line 116): attempt++, next pass
RetryTimer(l) ==
  /\ loops[l].status = "sleeping"
  /\ now >= loops[l].wake
  /\ LET a == loops[l].attempt + 1 IN
     IF moreAttempts(a, MaxRetries)
     THEN \E built \in BOOLEAN : RunLoop(l, a, built, 0)
     ELSE /\ Settle(l, a, loops[l].lastError, <<"rejected", loops[l].lastError>>, 0)
          /\ UNCHANGED <<cb, agent, handles, consecFails>>
  /\ UNCHANGED <<now, apiKey, shutdowns, callsSince, hVars, runVars, runHist, rt, rlVars>>

Shutdown_ResetsBreaker ==
  /\ shutdowns < MaxShutdowns
  /\ shutdowns' = shutdowns + 1
  /\ agent' = 0
  /\ isInitializing' = FALSE
  /\ initializationPromise' = 0
  /\ callsSince' = 0
  /\ cb' = BreakerWith(cb.threshold)
  /\ UNCHANGED <<now, apiKey, loops, gpc, gawait, gres, handles, hVars, runVars,
                 cbHist, rt, rlVars>>

\* agentManager.shutdown() (lines 337-351)
Shutdown ==
  /\ shutdowns < MaxShutdowns
  /\ shutdowns' = shutdowns + 1
  /\ agent' = 0
  /\ isInitializing' = FALSE
  /\ initializationPromise' = 0
  /\ callsSince' = 0
  /\ UNCHANGED <<now, cb, apiKey, loops, gpc, gawait, gres, handles, hVars, runVars,
                 cbHist, rt, rlVars>>

\* getHealth(), lines 303-308: the answer given within the cache period
cachedHealth(a) == IF a # 0 THEN "healthy" ELSE "unhealthy"

\* getHealth(), lines 313-327: the status when it is recomputed; every handle
\* has the tools array of line 258 and the run function of line 206
computeHealth(a) ==
  IF a = 0 THEN "initializing"
  ELSE IF ToolsCount > 0 THEN "healthy" ELSE "unhealthy"

\* line 303
withinCache(t, last) == t - last < HealthCacheMs

\* agentManager.getHealth() (lines 299-335), called by the health route or by
\* the periodic timer of startHealthCheck
GetHealth ==
  /\ IF withinCache(now, lastHealthCheck)
     THEN /\ health' = [status |-> cachedHealth(agent),
                        lastHealthCheck |-> lastHealthCheck, cached |-> TRUE]
          /\ UNCHANGED <<lastHealthCheck, lastComputed>>
     ELSE /\ lastHealthCheck' = now
          /\ lastComputed' = computeHealth(agent)
          /\ health' = [status |-> computeHealth(agent),
                        lastHealthCheck |-> now, cached |-> FALSE]
  /\ UNCHANGED <<now, cb, apiKey, agent, isInitializing, initializationPromise, loops,
                 gpc, gawait, gres, handles, shutdowns, callsSince, runVars,
                 cbHist, rt, rlVars>>

TickAM ==
  /\ now < MaxTimeAM
  /\ now' = now + 1
  /\ UNCHANGED <<cbVars, rt, rlVars, amVars>>

NextAM ==
  \/ \E c \in Clients : GetAgent(c)
  \/ \E c \in Clients : InitializeAgent(c)
  \/ \E l \in Loops : RetryTimer(l)
  \/ Shutdown
  \/ TickAM

\* Time goes on past the horizon of TickAM for as long as a retry delay (the
\* setTimeout of line 116) is pending: the clock moves to the earliest pending timer.
AwaitTimer ==
  /\ now >= MaxTimeAM
  /\ ActiveLoops # {}
  /\ \A l \in ActiveLoops : loops[l].wake > now
  /\ now' = CHOOSE t \in {loops[l].wake : l \in ActiveLoops} :
              \A l \in ActiveLoops : t <= loops[l].wake
  /\ UNCHANGED <<cbVars, rt, rlVars, amVars>>

\* the clients whose getAgent() calls are followed to their end
LiveClients == {1, 2}

NextLive ==
  \/ \E c \in LiveClients : GetAgent(c)
  \/ \E l \in Loops : RetryTimer(l)
  \/ Shutdown
  \/ TickAM
  \/ AwaitTimer

\* the wrapped run() replaces result.data.message.content (line 241)
NormalizeMessageContent ==
  /\ runOutput.field = "none"
  /\ runOutput' = [field |-> "message.content", value |-> normalizeMessageContent(runInput)]
  /\ UNCHANGED <<now, cbVars, rt, rlVars, apiKey, agent, isInitializing,
                 initializationPromise, loops, gpc, gawait, gres, handles, shutdowns,
                 callsSince, hVars, runInput>>

\* the wrapped run() replaces result.data.result (line 243)
NormalizeResult ==
  /\ runOutput.field = "none"
  /\ runOutput' = [field |-> "result", value |-> normalizeResult(runInput)]
  /\ UNCHANGED <<now, cbVars, rt, rlVars, apiKey, agent, isInitializing,
                 initializationPromise, loops, gpc, gawait, gres, handles, shutdowns,
                 callsSince, hVars, runInput>>

NextRun ==
  \/ NormalizeMessageContent
  \/ NormalizeResult

\* the agent manager together with its health surface
NextHealth ==
  \/ \E c \in Clients : GetAgent(c)
  \/ \E l \in Loops : RetryTimer(l)
  \/ Shutdown
  \/ GetHealth
  \/ TickAM

(* ------------------------------------------------------------------ *)
(* Concurrent execute() calls on one breaker                          *)
(* ------------------------------------------------------------------ *)

InitCB ==
  /\ now = 0
  /\ cb = NewBreaker
  /\ pc = [c \in Callers |-> "idle"]
  /\ lastResult = [c \in Callers |-> "none"]
  /\ probe = [c \in Callers |-> "no"]
  /\ opCalls = 0
  /\ issued = 0
  /\ consecFails = 0
  /\ lastTransition = "none"
  /\ openedAt = -1

\* execute() up to `await fn()`: rejected by the breaker, or admitted with fn() in flight
ExecuteBegin(c) ==
  /\ pc[c] = "idle"
  /\ issued < MaxCalls
  /\ issued' = issued + 1
  /\ IF ~canExecute(cb, now)
     THEN /\ lastResult' = [lastResult EXCEPT ![c] = "CircuitBreakerError"]
          /\ probe' = [probe EXCEPT ![c] = "no"]
          /\ UNCHANGED <<cb, pc, opCalls, lastTransition>>
     ELSE /\ cb' = enterHalfOpen(cb, now)
          /\ pc' = [pc EXCEPT ![c] = "running"]
          /\ opCalls' = opCalls + 1
          /\ lastResult' = [lastResult EXCEPT ![c] = "pending"]
          /\ probe' = [probe EXCEPT ![c] = IF cb.state = "open" /\ cb'.state = "half-open"
                                           THEN "yes"
                                           ELSE IF cb.state = "half-open" THEN "joined"
                                           ELSE "no"]
          /\ lastTransition' = IF cb'.state # cb.state THEN cb'.state ELSE lastTransition
  /\ UNCHANGED <<now, consecFails, openedAt, rt, rlVars, amVars>>

\* fn() resolved: recordSuccess(), return result
ExecuteSucceed(c) ==
  /\ pc[c] = "running"
  /\ cb' = recordSuccess(cb)
  /\ pc' = [pc EXCEPT ![c] = "idle"]
  /\ lastResult' = [lastResult EXCEPT ![c] = "ok"]
  /\ consecFails' = 0
  /\ lastTransition' = IF cb'.state # cb.state THEN cb'.state ELSE lastTransition
  /\ UNCHANGED <<now, probe, opCalls, issued, openedAt, rt, rlVars, amVars>>

\* fn() rejected: recordFailure(), rethrow
ExecuteFail(c) ==
  /\ pc[c] = "running"
  /\ cb' = recordFailure(cb, now)
  /\ pc' = [pc EXCEPT ![c] = "idle"]
  /\ lastResult' = [lastResult EXCEPT ![c] = "error"]
  /\ consecFails' = consecFails + 1
  /\ lastTransition' = IF cb'.state # cb.state THEN cb'.state ELSE lastTransition
  /\ openedAt' = IF cb'.state = "open" /\ cb.state # "open" THEN now ELSE openedAt
  /\ probe' = [d \in Callers |->
                 IF d # c /\ pc[d] = "running" /\ probe[d] = "yes"
                    /\ cb'.state = "open"
                 THEN "reopened" ELSE probe[d]]
  /\ UNCHANGED <<now, opCalls, issued, rt, rlVars, amVars>>

TickCB ==
  /\ now < MaxTime
  /\ now' = now + 1
  /\ UNCHANGED <<cbVars, rt, rlVars, amVars>>

vars == <<now, cbVars, rt, rlVars, amVars>>

BreakerUnused == InitCB

InitRetryCall == InitRetry /\ BreakerUnused /\ LimiterUnused /\ AgentManagerUnused

SpecRetry == InitRetryCall /\ [][NextRetry]_vars

InitLimiter == InitRL /\ BreakerUnused /\ RetryUnused /\ AgentManagerUnused

\* CIRCUIT_BREAKER_THRESHOLD and MAX_RETRIES are configuration: the manager's
\* breaker is taken with a threshold within reach of one initialization's
\* attempts and with one beyond it
ManagerThresholds == {Threshold, MaxRetries + 2}

InitAgentManager ==
  /\ InitAM /\ RetryUnused /\ LimiterUnused
  /\ now = 0
  /\ cb \in {BreakerWith(n) : n \in ManagerThresholds}
  /\ pc = [c \in Callers |-> "idle"]
  /\ lastResult = [c \in Callers |-> "none"]
  /\ probe = [c \in Callers |-> "no"]
  /\ opCalls = 0
  /\ issued = 0
  /\ consecFails = 0
  /\ lastTransition = "none"
  /\ openedAt = -1

\* the manager with the default breaker only
InitManagerDefault == InitAM /\ BreakerUnused /\ RetryUnused /\ LimiterUnused

Spec == InitAgentManager /\ [][NextAM]_vars

\* timers fire: time passes, and a retry delay that is over is followed by the
\* next pass of its loop
SpecLive ==
  /\ InitAgentManager /\ [][NextLive]_vars
  /\ WF_vars(TickAM) /\ WF_vars(AwaitTimer)
  /\ \A l \in Loops : WF_vars(RetryTimer(l))

SpecHealth == InitManagerDefault /\ [][NextHealth]_vars

\* a run() result arrives with any of the values in one of the two fields
InitRun ==
  /\ BreakerUnused /\ RetryUnused /\ LimiterUnused
  /\ apiKey = TRUE
  /\ agent = 0
  /\ isInitializing = FALSE
  /\ initializationPromise = 0
  /\ loops = [l \in Loops |-> NoLoop]
  /\ gpc = [c \in Clients |-> "idle"]
  /\ gawait = [c \in Clients |-> 0]
  /\ gres = [c \in Clients |-> << >>]
  /\ handles = 0
  /\ shutdowns = 0
  /\ callsSince = 0
  /\ HealthUnused
  /\ runInput \in RunValues
  /\ runOutput = [field |-> "none", value |-> NoValue]

SpecRun == InitRun /\ [][NextRun]_vars

SpecRL == InitLimiter /\ [][NextRL]_vars

SpecMW == InitLimiter /\ [][NextMW]_vars

Run_Unguarded(c) ==
  /\ handles > 0
  /\ pc[c] = "idle"
  /\ issued < MaxCalls
  /\ issued' = issued + 1
  /\ pc' = [pc EXCEPT ![c] = "running"]
  /\ opCalls' = opCalls + 1
  /\ lastResult' = [lastResult EXCEPT ![c] = "pending"]
  /\ UNCHANGED <<cb, probe, lastTransition>>
  /\ UNCHANGED <<now, consecFails, openedAt, rt, rlVars, amVars>>

\* wrappedAgent.run(message) up to `await agentInstance.run(message)` (lines
\* 206-210), called by a holder of a handle: the same circuitBreaker.execute as
\* the initialization's
Run(c) ==
  /\ handles > 0
  /\ ExecuteBegin(c)

\* the manager in use: clients fetch the handle, holders of a handle call run()
InitGuard == AgentManagerUnused /\ BreakerUnused /\ RetryUnused /\ LimiterUnused

\* the holders of a handle that call run()
Runners == {1, 2}

NextGuard ==
  \/ \E c \in LiveClients : GetAgent(c)
  \/ \E l \in Loops : RetryTimer(l)
  \/ Shutdown
  \/ \E c \in Runners : Run(c)
  \/ \E c \in Runners : ExecuteSucceed(c)
  \/ \E c \in Runners : ExecuteFail(c)
  \/ TickAM

SpecGuard == InitGuard /\ [][NextGuard]_vars

NextCB ==
  \/ \E c \in Callers : ExecuteBegin(c)
  \/ \E c \in Callers : ExecuteSucceed(c)
  \/ \E c \in Callers : ExecuteFail(c)
  \/ TickCB

InitBreakerCalls == InitCB /\ RetryUnused /\ LimiterUnused /\ AgentManagerUnused

SpecCB == InitBreakerCalls /\ [][NextCB]_vars

(* ------------------------------------------------------------------ *)
(* Circuit breaker properties (checked under SpecCB)                  *)
(* ------------------------------------------------------------------ *)

\* C1: once Threshold operations in a row have failed through execute() (no
\* success in between), the breaker is Open right after the failure that
\* completes the run; and an execute() issued while the breaker is Open and
\* now < nextAttemptTime ends with CircuitBreakerError, invokes no operation
\* and puts none in flight.
C1_OpensAfterThreshold ==
  [][\A c \in Callers :
       /\ (ExecuteFail(c) /\ consecFails' >= Threshold) => cb'.state = "open"
       /\ (ExecuteBegin(c) /\ cb.state = "open" /\ now < cb.nextAttemptTime)
            => /\ lastResult'[c] = "CircuitBreakerError"
               /\ opCalls' = opCalls
               /\ pc' = pc
    ]_vars

\* C1 witness: Threshold failures in a row have opened the breaker and a later
\* call was turned away before nextAttemptTime.
C1_Witness ==
  /\ consecFails >= Threshold
  /\ cb.state = "open"
  /\ now < cb.nextAttemptTime
  /\ \E c \in Callers : lastResult[c] = "CircuitBreakerError"

C7_HalfOpenFailureReopens ==
  [][\A c \in Callers :
       /\ (ExecuteFail(c) /\ cb.state = "half-open")
            => /\ cb'.state = "open"
               /\ cb'.nextAttemptTime = now + Timeout
       /\ cb'.failureCount >= 0
    ]_vars

\* C10 as stated: failureCount >= threshold exactly when the breaker's latest
\* state transition was a transition to Open.
C10_Original ==
  (cb.failureCount >= Threshold) <=> (lastTransition = "open")

\* C10 amended: failureCount >= threshold only if the breaker's latest state
\* transition was to Open or to HalfOpen (so never while Closed).
C10_CountImpliesOpened ==
  (cb.failureCount >= Threshold) =>
     /\ lastTransition \in {"open", "half-open"}
     /\ cb.state = lastTransition

\* C10 witness: HalfOpen entered with failureCount still at or above threshold.
C10_Witness ==
  /\ cb.failureCount >= Threshold
  /\ lastTransition = "half-open"

\* C23 as stated: once the breaker has changed to Open at time t, an execute()
\* issued while it is Open at any time >= t + timeout is admitted: the state
\* becomes HalfOpen and the operation is invoked.
C23_Original ==
  [][\A c \in Callers :
       (ExecuteBegin(c) /\ cb.state = "open" /\ now >= openedAt + Timeout)
          => /\ cb'.state = "half-open"
             /\ pc'[c] = "running"
             /\ opCalls' = opCalls + 1
    ]_vars

\* C23 amended: the timeout runs from the latest failure recorded, not from the
\* change to Open: an execute() issued while the breaker is Open at any time
\* >= lastFailureTime + timeout is admitted (HalfOpen, operation invoked);
\* nextAttemptTime is never later than lastFailureTime + timeout, and never
\* earlier than the time of the change to Open + timeout.
C23_AdmittedAfterTimeout ==
  /\ [][\A c \in Callers :
          (ExecuteBegin(c) /\ cb.state = "open" /\ now >= cb.lastFailureTime + Timeout)
             => /\ cb'.state = "half-open"
                /\ pc'[c] = "running"
                /\ opCalls' = opCalls + 1
       ]_vars
  /\ [](cb.state = "open" =>
          /\ cb.nextAttemptTime <= cb.lastFailureTime + Timeout
          /\ cb.nextAttemptTime >= openedAt + Timeout)

\* C23 witness: a call issued exactly timeout after the latest failure was
\* admitted from Open and is in flight with the breaker HalfOpen.
C23_Witness ==
  \E c \in Callers :
    /\ pc[c] = "running"
    /\ probe[c] = "yes"
    /\ cb.state = "half-open"
    /\ now = cb.lastFailureTime + Timeout

\* C25: while the breaker is HalfOpen every execute() call is admitted, however
\* many operations are in flight: the call invokes its operation and leaves
\* the breaker as it is.  So operations of two or more calls admitted from
\* Open or HalfOpen can be in flight together while state = HalfOpen (the
\* witness); there is no single-probe guard.
C25_HalfOpenAdmitsAll ==
  [][\A c \in Callers :
       (ExecuteBegin(c) /\ cb.state = "half-open")
          => /\ pc'[c] = "running"
             /\ opCalls' = opCalls + 1
             /\ cb' = cb
             /\ probe'[c] = "joined"
    ]_vars

\* C25 witness: the call that made the Open -> HalfOpen transition and a call
\* admitted while HalfOpen are both in flight, the breaker still HalfOpen.
C25_Witness ==
  \E c, d \in Callers :
    /\ c # d
    /\ pc[c] = "running" /\ probe[c] = "yes"
    /\ pc[d] = "running" /\ probe[d] = "joined"
    /\ cb.state = "half-open"

\* C11: an execute() call made while canExecute() is false (state Open and
\* now < nextAttemptTime) is not counted as a failure: state, failureCount,
\* lastFailureTime and nextAttemptTime are what they were, the operation is
\* not invoked, and no failure is added to the current run of failures.
C11_RejectionIsNotAFailure ==
  [][\A c \in Callers :
       (ExecuteBegin(c) /\ cb.state = "open" /\ now < cb.nextAttemptTime)
          => /\ cb' = cb
             /\ opCalls' = opCalls
             /\ consecFails' = consecFails
             /\ lastTransition' = lastTransition
             /\ pc'[c] = "idle"
    ]_vars

\* C11 witness: a call was turned away by the Open breaker, whose fields still
\* show the failure that opened it.
C11_Witness ==
  \E c \in Callers :
    /\ lastResult[c] = "CircuitBreakerError"
    /\ pc[c] = "idle"
    /\ cb.state = "open"
    /\ cb.failureCount = Threshold
    /\ cb.nextAttemptTime = cb.lastFailureTime + Timeout
    /\ now > cb.lastFailureTime

(* ------------------------------------------------------------------ *)
(* withRetry properties (checked under SpecRetry)                     *)
(* ------------------------------------------------------------------ *)

\* C8: when every invocation of the operation fails, withRetry invokes it
\* exactly maxRetries + 1 times (it does not stop earlier and does not go on),
\* and then throws the error of the last invocation.
C8_ExhaustsThenThrowsLast ==
  (rt.failures = rt.calls) =>
     IF rt.calls = rt.maxRetries + 1
     THEN rt.pc = "thrown" /\ rt.result = rt.calls /\ rt.lastError = rt.calls
     ELSE rt.pc \in {"try", "sleep"} /\ rt.calls < rt.maxRetries + 1

\* C8 witness: three retries were allowed, all four invocations failed.
C8_Witness ==
  /\ rt.pc = "thrown"
  /\ rt.maxRetries = 3
  /\ rt.calls = 4
  /\ rt.failures = 4
  /\ rt.result = 4

\* C9: the first delay is baseDelay and every further delay is twice the one
\* before (no jitter, no cap); a call that has thrown waited exactly maxRetries
\* delays; with baseDelay = 100 and maxRetries = 3 they are 100, 200, 400.
C9_DelaysDouble ==
  /\ \A i \in 1..Len(rt.delays) :
       rt.delays[i] = IF i = 1 THEN rt.baseDelay ELSE 2 * rt.delays[i - 1]
  /\ Len(rt.delays) = IF rt.pc = "sleep" THEN rt.failures
                      ELSE IF rt.pc = "thrown" THEN rt.maxRetries
                      ELSE rt.failures
  /\ (rt.pc = "thrown" /\ rt.baseDelay = 100 /\ rt.maxRetries = 3)
       => rt.delays = <<100, 200, 400>>

\* C9 witness: the call with baseDelay 100 and maxRetries 3 ran out of attempts.
C9_Witness ==
  /\ rt.pc = "thrown"
  /\ rt.baseDelay = 100
  /\ rt.maxRetries = 3
  /\ Len(rt.delays) = 3

\* C28: withRetry stops at the first invocation that succeeds: it returns that
\* invocation's result, every earlier invocation having failed and been
\* followed by one delay; once it has returned or thrown it invokes nothing
\* and waits for nothing more; and it waits no delay after the success or
\* after the last failed attempt (a call that has thrown waited maxRetries
\* delays for its maxRetries + 1 failures).
C28_StopsAtFirstSuccess ==
  /\ [](rt.pc = "returned" =>
          /\ rt.result = rt.calls
          /\ rt.failures = rt.calls - 1
          /\ Len(rt.delays) = rt.failures)
  /\ [](rt.pc = "thrown" =>
          /\ rt.failures = rt.calls
          /\ Len(rt.delays) = rt.failures - 1)
  /\ [][rt.pc \in {"returned", "thrown"} => rt' = rt]_vars

\* C28 witness: the third invocation succeeded with a retry still unused.
C28_Witness ==
  /\ rt.pc = "returned"
  /\ rt.maxRetries = 3
  /\ rt.calls = 3
  /\ rt.result = 3
  /\ Len(rt.delays) = 2

(* ------------------------------------------------------------------ *)
(* Rate limiter properties (checked under SpecRL and SpecMW)          *)
(* ------------------------------------------------------------------ *)

\* C2 as stated: a request for which checkLimit returned allowed = false never
\* reaches the wrapped handler and is answered with 429.
C2_DeniedNeverReachesHandler ==
  (rq.limiter = "denied") => (rq.handlerCalls = 0 /\ rq.status = "429")

\* C5: with no reset() call, the k-th checkLimit call of an identity in a
\* window returns allowed with remaining = maxRequests - k when k <= maxRequests
\* and returns not allowed with remaining = 0 when k > maxRequests; the count
\* starts again in every window, so the first call in a later window is
\* allowed with remaining = maxRequests - 1.
C5_FixedWindowCounts ==
  (~resetUsed /\ rlLast.k >= 1) =>
     IF rlLast.k <= MaxRequests
     THEN rlLast.allowed /\ rlLast.remaining = MaxRequests - rlLast.k
     ELSE ~rlLast.allowed /\ rlLast.remaining = 0

\* C5 witness: an identity used up window 0, was turned away there, and its
\* first call in a later window has just been admitted.
C5_Witness ==
  /\ ~resetUsed
  /\ rlLast.window >= 1
  /\ rlLast.k = 1
  /\ rlLast.allowed
  /\ rlLast.remaining = MaxRequests - 1
  /\ seen[<<rlLast.id, 0>>] > MaxRequests

\* the count stored under key k (0 when the key is not in the Map)
countOf(reqs, k) == IF reqs[k] = NoEntry THEN 0 ELSE reqs[k].count

\* C21: with no reset() call, under any interleaving of checkLimit calls of
\* several identities, clock ticks and cleanup sweeps: every stored entry has
\* 1 <= count <= maxRequests; a call is allowed exactly when the count stored
\* for its identity and window before the call is < maxRequests; the count
\* goes up by one on an allowed call and stays on a refused one; nothing else
\* changes a count except a sweep removing the entry, and no sweep removes
\* the entry of a window that is still running.  So no identity is admitted
\* more than maxRequests times in one window.
C21_AdmissionsBounded ==
  [][~resetUsed' =>
       /\ \A k \in Keys : countOf(requests', k) <= MaxRequests
       /\ \A k \in Keys : requests'[k] # NoEntry => requests'[k].count >= 1
       /\ \A id \in Ids :
            CheckLimit(id) =>
              LET key == <<id, windowKey(now)>> IN
              /\ rlLast'.allowed <=> countOf(requests, key) < MaxRequests
              /\ countOf(requests', key) =
                    countOf(requests, key) + (IF rlLast'.allowed THEN 1 ELSE 0)
              /\ \A k \in Keys \ {key} : requests'[k] = requests[k]
              /\ rlLast'.allowed => rlLast'.k <= MaxRequests
       /\ \A k \in Keys :
            countOf(requests', k) < countOf(requests, k)
              => /\ requests'[k] = NoEntry
                 /\ now >= windowEnd(k[2])
    ]_vars

\* C21 witness: with no reset(), an identity has used up a window after a
\* sweep has run, and its latest call in that window was refused.
C21_Witness ==
  /\ ~resetUsed
  /\ nextSweep > SweepInterval
  /\ rlLast.k > MaxRequests
  /\ ~rlLast.allowed
  /\ rlLast.window >= 1
  /\ countOf(requests, <<rlLast.id, rlLast.window>>) = MaxRequests

\* C27 as stated: withRateLimit invokes the wrapped handler at most once per
\* request, whatever the handler does and also when setting the rate-limit
\* headers on its response fails.
C27_HandlerAtMostOnce ==
  rq.handlerCalls <= 1

\* C18: when the limiter itself throws inside withRateLimit (getClientIP or
\* checkLimit fails), the request proceeds: the handler is invoked, once, and
\* the request ends as that invocation does, with the handler's response when
\* it returns one; it is not answered with 429 and the limiter's error is not
\* what the caller gets.
C18_LimiterFailureAllows ==
  (rq.limiter = "threw") =>
     /\ rq.handlerCalls = 1
     /\ rq.handler = "ok" => rq.status = "handler response"
     /\ rq.handler = "throws" => rq.status = "handler error"
     /\ rq.handler \in Outcomes

\* C18 witness: the limiter threw and the handler's response was returned.
C18_Witness ==
  /\ rq.limiter = "threw"
  /\ rq.handlerCalls = 1
  /\ rq.status = "handler response"

\* C20 as stated: the resetTime of every entry stored under identity:windowIndex
\* stays within that window (resetTime <= (windowIndex + 1) * windowMs), and
\* the resetTime checkLimit returns is the end of the window that counted the
\* request.
C20_ResetTimeWithinWindow ==
  /\ \A k \in Keys :
       requests[k] # NoEntry => requests[k].resetTime <= windowEnd(k[2])
  /\ rlLast.k >= 1 => rlLast.resetTime = windowEnd(rlLast.window)

\* C17 as stated: with the cleanup sweep running every sweep interval, no entry
\* is in the limiter's map later than the end of its fixed window plus one
\* sweep interval.
C17_EntriesGoneAfterSweep ==
  \A k \in Keys :
    requests[k] # NoEntry => now <= windowEnd(k[2]) + SweepInterval

(* ------------------------------------------------------------------ *)
(* Agent manager properties (checked under Spec)                      *)
(* ------------------------------------------------------------------ *)

\* C3: as long as shutdown() has not been called, a getAgent()/initializeAgent()
\* call made while an initialization is in flight starts no further
\* initialization; at most one is in flight; every client that is waiting waits
\* for that one; and every client whose call was attached to an initialization
\* has received exactly that initialization's outcome, so all of them hold the
\* same handle or the same error.
C3_SingleFlight ==
  /\ [](shutdowns = 0 =>
          /\ Cardinality(ActiveLoops) <= 1
          /\ \A c \in Clients :
               /\ gpc[c] = "awaiting" =>
                    /\ gawait[c] \in ActiveLoops
                    /\ isInitializing
                    /\ initializationPromise = gawait[c]
               /\ (gpc[c] = "done" /\ gawait[c] # 0) =>
                    /\ loops[gawait[c]].status = "settled"
                    /\ gres[c] = loops[gawait[c]].outcome
          /\ \A c, d \in Clients :
               (gpc[c] = "done" /\ gpc[d] = "done" /\ gawait[c] # 0
                  /\ gawait[c] = gawait[d]) => gres[c] = gres[d])
  /\ [][(shutdowns' = 0 /\ ActiveLoops # {}) => UsedLoops' = UsedLoops]_vars

\* C3 witness: without any shutdown, two clients were attached to the one
\* initialization that was started, which went through a retry delay, and both
\* ended with its outcome.
C3_Witness ==
  /\ shutdowns = 0
  /\ Cardinality(UsedLoops) = 1
  /\ \E c, d \in Clients :
       /\ c # d
       /\ gpc[c] = "done" /\ gpc[d] = "done"
       /\ gawait[c] # 0 /\ gawait[c] = gawait[d]
       /\ loops[gawait[c]].attempt >= 1
       /\ gres[c] = gres[d]

\* C4 as stated: at most one initialization (withRetry loop started by
\* initializeAgent) is executing at any time.
C4_AtMostOneInitialization ==
  Cardinality(ActiveLoops) <= 1

\* the initializations whose promise has been rejected
FailedLoops ==
  {l \in Loops : loops[l].status = "settled" /\ loops[l].outcome[1] = "rejected"}

\* C12 as stated: when an initialization fails (its promise is rejected after
\* the retry budget is used up), no handle is cached afterwards and no
\* in-flight state remains (isInitializing false, initializationPromise null);
\* and a getAgent()/initializeAgent() call made later is never attached to the
\* failed initialization: it does not return the earlier failure.
C12_FailureLeavesNothingCached ==
  [][/\ \A l \in Loops :
          (l \notin FailedLoops /\ l \in FailedLoops')
             => /\ agent' = 0
                /\ ~isInitializing'
                /\ initializationPromise' = 0
     /\ \A c \in Clients :
          (gpc[c] = "idle" /\ gpc'[c] # "idle") => gawait'[c] \notin FailedLoops
    ]_vars

\* C13 as stated: when shutdown() has completed, no handle is cached and no
\* in-flight initialization promise is held; and the first getAgent() call
\* after a shutdown() starts a new initialization (a new construction attempt)
\* instead of returning a handle that comes from before the shutdown.
C13_ShutdownThenFreshInit ==
  [][/\ Shutdown => (agent' = 0 /\ ~isInitializing' /\ initializationPromise' = 0)
     /\ \A c \in Clients :
          (GetAgent(c) /\ shutdowns >= 1 /\ callsSince = 0)
             => /\ UsedLoops' # UsedLoops
                /\ gawait'[c] \in UsedLoops' \ UsedLoops
    ]_vars

\* the initializations whose latest construction attempt ended with error `kind`
LoopsFailedWith(kind) ==
  {l \in Loops : loops[l].lastError # << >> /\ loops[l].lastError[1] = kind}

C15_CircuitBreakerErrorNotRetried ==
  [][\A l \in Loops :
       (l \notin LoopsFailedWith("CircuitBreakerError")
          /\ l \in LoopsFailedWith("CircuitBreakerError")')
         => /\ loops'[l].status = "settled"
            /\ loops'[l].outcome = <<"rejected", loops'[l].lastError>>
            /\ \A c \in Clients : gawait'[c] = l => gpc'[c] = "done"
    ]_vars

(* ------------------------------------------------------------------ *)
(* Health properties (checked under SpecHealth)                       *)
(* ------------------------------------------------------------------ *)

\* C16 as stated: a getHealth() call made within the cache period of the latest
\* recomputation returns the status that recomputation produced (Initializing
\* stays Initializing) together with that recomputation's time; a call made
\* after the period returns the status it recomputes.
C16_CachedStatusReturned ==
  health.status # "none" =>
     /\ health.status = lastComputed
     /\ health.lastHealthCheck = lastHealthCheck

(* ------------------------------------------------------------------ *)
(* Properties of run()'s content normalization (checked under SpecRun) *)
(* ------------------------------------------------------------------ *)

\* the in-order concatenation of the text of the parts whose type is 'text'
RECURSIVE TextOfTextParts(_)
TextOfTextParts(a) ==
  IF a = << >> THEN << >>
  ELSE (IF Head(a).type = "text" /\ Head(a).hasText THEN Head(a).text ELSE << >>)
         \o TextOfTextParts(Tail(a))

\* C19 as stated: the wrapped run() turns message.content and result into a
\* plain string: a string is returned unchanged, and an array of content parts
\* gives the in-order concatenation of the text of exactly the parts whose
\* type is 'text'; parts of another type contribute nothing.
C19_NormalizesToText ==
  runOutput.field # "none" =>
     /\ runOutput.value.kind = "string"
     /\ runInput.kind = "string" => runOutput.value = runInput
     /\ runInput.kind = "array" => runOutput.value.str = TextOfTextParts(runInput.parts)

\* C26: after shutdown() has returned, and as long as no getAgent() or
\* initializeAgent() call has been issued since, no handle is cached: an
\* initialization that was waiting in a retry delay when shutdown() was called
\* installs nothing afterwards.
C26_NoStaleInstall ==
  (shutdowns >= 1 /\ callsSince = 0) => agent = 0

\* C29: shutdown() leaves the circuit breaker as it was (state, failureCount,
\* lastFailureTime, nextAttemptTime), and the first getAgent() or
\* initializeAgent() call after a shutdown that starts an initialization while
\* the breaker is open and now < nextAttemptTime has its first attempt rejected
\* with CircuitBreakerError: no handle is built and the breaker is not touched.
C29_ShutdownKeepsBreaker ==
  [][ /\ Shutdown => cb' = cb
      /\ \A c \in Clients :
           ( /\ GetAgent(c) \/ InitializeAgent(c)
             /\ shutdowns >= 1 /\ callsSince = 0
             /\ UsedLoops' # UsedLoops
             /\ cb.state = "open" /\ now < cb.nextAttemptTime )
           => /\ cb' = cb
              /\ handles' = handles
              /\ agent' = 0
              /\ \A l \in UsedLoops' \ UsedLoops :
                   loops'[l].lastError = <<"CircuitBreakerError", l, 0>> ]_vars

\* C29 witness: the initialization started by the first call after the shutdown
\* (the earlier one is still in its retry delay) had its first attempt rejected
\* by the breaker that was opened by the earlier initialization.
C29_Witness ==
  /\ shutdowns = 1 /\ callsSince = 1
  /\ cb.state = "open" /\ now < cb.nextAttemptTime
  /\ loops[1].status = "sleeping"
  /\ loops[2].status = "sleeping" /\ loops[2].attempt = 0
  /\ loops[2].lastError = <<"CircuitBreakerError", 2, 0>>
  /\ agent = 0

\* what one step made of the attempts of the initializations: an attempt that the
\* breaker rejected leaves the breaker and the handles alone, an attempt whose
\* construction steps threw adds one to failureCount
AttemptsCounted ==
  \A l \in Loops :
    loops'[l].lastError # loops[l].lastError =>
      IF loops'[l].lastError[1] = "CircuitBreakerError"
      THEN cb' = cb /\ handles' = handles
      ELSE cb'.failureCount = cb.failureCount + 1 /\ handles' = handles

\* a single initialization whose attempts all failed, under a threshold no single
\* initialization reaches, leaves failureCount = maxRetries + 1 and the breaker closed
ExhaustedBelowThreshold ==
  \A l \in Loops :
    ( /\ cb.threshold > MaxRetries + 1
      /\ UsedLoops = {l}
      /\ loops[l].status = "settled" /\ loops[l].outcome[1] = "rejected" )
    => /\ cb.failureCount = MaxRetries + 1
       /\ cb.state = "closed"

\* C24 as stated: each failed attempt counts one failure; an always-failing
\* initialization under threshold > maxRetries + 1 ends with failureCount =
\* maxRetries + 1; and once the failures of the (only) initialization have
\* opened the breaker, each of its remaining attempts is rejected without the
\* construction steps.
C24_Original ==
  /\ []ExhaustedBelowThreshold
  /\ [][ /\ AttemptsCounted
         /\ \A l \in Loops :
              ( /\ RetryTimer(l)
                /\ UsedLoops = {l} /\ shutdowns = 0
                /\ moreAttempts(loops[l].attempt + 1, MaxRetries)
                /\ cb.state = "open" )
              => /\ cb' = cb /\ handles' = handles
                 /\ loops'[l].lastError[1] = "CircuitBreakerError" ]_vars

\* C24 amended: each failed attempt counts one failure; an always-failing single
\* initialization under threshold > maxRetries + 1 ends with failureCount =
\* maxRetries + 1; and every remaining attempt made while the breaker is open
\* and now < nextAttemptTime is rejected without the construction steps.
C24_AttemptsCountAgainstBreaker ==
  /\ []ExhaustedBelowThreshold
  /\ [][ /\ AttemptsCounted
         /\ \A l \in Loops :
              ( /\ RetryTimer(l)
                /\ moreAttempts(loops[l].attempt + 1, MaxRetries)
                /\ cb.state = "open" /\ now < cb.nextAttemptTime )
              => /\ cb' = cb /\ handles' = handles
                 /\ loops'[l].lastError =
                      <<"CircuitBreakerError", l, loops[l].attempt + 1>> ]_vars

\* C24 witness: under a threshold beyond one initialization's attempts, the
\* first initialization failed maxRetries + 1 times, the first failure of the
\* second one opened the breaker, and its next attempt was rejected.
C24_Witness ==
  /\ cb.threshold > MaxRetries + 1
  /\ loops[1].status = "settled" /\ loops[1].outcome[1] = "rejected"
  /\ loops[1].lastError[1] # "CircuitBreakerError"
  /\ loops[2].attempt >= 1
  /\ loops[2].lastError = <<"CircuitBreakerError", 2, loops[2].attempt>>
  /\ cb.state = "open" /\ cb.failureCount = cb.threshold
  /\ handles = 0

\* C30: when timers fire, every getAgent() call that has to
\* wait for an initialization is eventually answered (resolved or rejected); an
\* initialization makes at most maxRetries + 1 attempts; and when an
\* initialization settles, every client waiting for it gets its outcome in that
\* very step, whether or not shutdown() cleared the in-flight fields meanwhile.
C30_EveryCallSettles ==
  /\ \A c \in Clients : (gpc[c] = "awaiting") ~> (gpc[c] = "done")
  /\ [](\A l \in Loops :
          /\ loops[l].attempt <= MaxRetries + 1
          /\ loops[l].status = "sleeping" => loops[l].attempt < MaxRetries
          /\ loops[l].lastError # << >> => loops[l].lastError[3] <= MaxRetries)
  /\ [][\A l \in Loops :
          (loops[l].status # "settled" /\ loops'[l].status = "settled") =>
             \A c \in Clients :
               (gpc[c] = "awaiting" /\ gawait[c] = l)
                  => gpc'[c] = "done" /\ gres'[c] = loops'[l].outcome]_vars

\* C30 witness: two clients were waiting for the first initialization when
\* shutdown() cleared the in-flight fields (no call has been issued since, yet a
\* handle is cached); the initialization went through a retry delay, and when it
\* settled both got its handle.
C30_Witness ==
  /\ shutdowns >= 1 /\ callsSince = 0
  /\ agent # 0
  /\ loops[1].status = "settled" /\ loops[1].attempt >= 1
  /\ \E c, d \in LiveClients :
       /\ c # d
       /\ gawait[c] = 1 /\ gawait[d] = 1
       /\ gpc[c] = "done" /\ gpc[d] = "done"
       /\ gres[c] = loops[1].outcome /\ gres[d] = loops[1].outcome
       /\ gres[c] = <<"resolved", agent>>

\* C22: one breaker guards initialization and run().  A run() failure that makes
\* threshold run() failures in a row, with no success through the breaker in
\* between, leaves the breaker open; and while the breaker is open and now <
\* nextAttemptTime, a new run() call is rejected with CircuitBreakerError without
\* the remote call, and a new initialization attempt (of a starting or of a
\* retrying initialization) is rejected with CircuitBreakerError without the
\* construction steps; neither touches the breaker.
C22_OneBreakerGuardsBoth ==
  [][ /\ \A c \in Callers :
           (ExecuteFail(c) /\ consecFails' >= cb.threshold) => cb'.state = "open"
      /\ (cb.state = "open" /\ now < cb.nextAttemptTime) =>
           /\ \A c \in Callers :
                Run(c) => /\ lastResult'[c] = "CircuitBreakerError"
                          /\ opCalls' = opCalls
                          /\ pc'[c] = "idle"
                          /\ cb' = cb
           /\ \A l \in Loops :
                loops'[l].lastError # loops[l].lastError =>
                   /\ loops'[l].lastError[1] = "CircuitBreakerError"
                   /\ handles' = handles
                   /\ cb' = cb
           /\ \A c \in Clients :
                (GetAgent(c) /\ agent = 0
                   /\ ~inFlight(isInitializing, initializationPromise))
                => /\ UsedLoops' # UsedLoops
                   /\ \A l \in UsedLoops' \ UsedLoops :
                        loops'[l].lastError = <<"CircuitBreakerError", l, 0>> ]_vars

\* C22 witness: run() failures alone opened the breaker (the only initialization
\* before them succeeded at once); then, before nextAttemptTime, a run() call
\* was rejected, and after a shutdown() the first attempt of a new
\* initialization was rejected too.
C22_Witness ==
  /\ consecFails >= cb.threshold
  /\ cb.state = "open" /\ now < cb.nextAttemptTime
  /\ cb.failureCount = consecFails
  /\ \E c \in Callers : lastResult[c] = "CircuitBreakerError"
  /\ shutdowns >= 1
  /\ loops[1].status = "settled" /\ loops[1].attempt = 0
  /\ loops[2].lastError = <<"CircuitBreakerError", 2, 0>>
  /\ handles = 1

=============================================================================
